---- MODULE Spec2Model ----
(***************************************************************************)
(* Verification model of the enhanced survey tool.                         *)
(*                                                                         *)
(* Part I  - backend/server.js: the per-session throttling registry        *)
(*           (sessionThrottling), the sessionRateLimit middleware in front *)
(*           of POST /api/validate and the session status query.           *)
(* Part II - survey-tool/src/components/SurveyForm.tsx: the React form     *)
(*           state (answers, config.questions, submissionStatus, ...),     *)
(*           the asynchronous validateAnswer / handleSubmit handlers with  *)
(*           the values their closures captured when they were invoked.    *)
(*                                                                         *)
(* The two parts are separate processes; each has its own specification    *)
(* (SpecServer, SpecForm) over the shared variable tuple.                  *)
(***************************************************************************)
EXTENDS Integers, Sequences, FiniteSets, TLC

VARIABLES
    \* ---- Part I: server ----
    sessionThrottling,  \* Map sessionId -> { requests: [...], lastReset }
    now,                \* Date.now() of the server process, in ms
    lastResp,           \* the last HTTP response the server sent
    sent,               \* history: per session, the requests of its current burst
                        \* (count), how many of them were rejected (rejected), the
                        \* time of the burst's first request (since), and all its
                        \* requests so far (total)
    globalHits,         \* store of globalRateLimit: ip -> requests in the 15 min window
    lastSweep,          \* the time the cleanup interval last fired (process start: 0)
    asked,              \* history: the status queries so far
    \* ---- Part II: form ----
    validationTrigger,      \* prop: 'blur' | 'submit'
    followUpDisplayMode,    \* prop: 'separate' | 'inline'
    questions,              \* config.questions (state owned by App)
    answers,                \* useState<Record<string, Answer>>
    questionValidationState,\* inline-mode validation state
    submissionStatus,       \* 'idle' | 'validating' | 'halted' | 'submitting'
    sessionStatus,          \* useState<SessionStatus>
    calls,                  \* validateAnswer invocations in flight
    hs,                     \* the handleSubmit invocation in flight (or none)
    clock,                  \* Date.now() of the browser, in ms
    scoreInClosure,         \* findScoreAnswer(answers) for the `answers` in the closure
                            \* of the current validateAnswer callback
    actions,                \* history: the respondent's actions so far
    \* ---- Part III: response interpreter ----
    completion,             \* the text the LLM returned for one POST /api/validate
    verdict,                \* the response to that request (status 0: none yet)
    body,                   \* req.body of that request
    keysConfigured,         \* the API key of the requested provider is configured
    llmCall,                \* the call made to the LLM (<<>>: none)
    errorResponse           \* the error response to that request (status 0: none)

serverVars == <<sessionThrottling, now, lastResp, sent, globalHits, lastSweep, asked>>
formVars == <<validationTrigger, followUpDisplayMode, questions, answers,
              questionValidationState, submissionStatus, sessionStatus,
              calls, hs, clock, scoreInClosure, actions>>
interpreterVars == <<completion, verdict, body, keysConfigured, llmCall, errorResponse>>
vars == <<serverVars, formVars, interpreterVars>>

undefined == "undefined"

Min(a, b) == IF a <= b THEN a ELSE b

(***************************************************************************)
(* Part I - the server                                                     *)
(***************************************************************************)

\* session ids sent in the X-Session-Id header
Sessions == {"s1", "s2"}

\* the server clock advances in steps of TickMs, MaxTicks times at most
TickMs == 30000
MaxTicks == 2
\* at most MaxSent requests reach sessionRateLimit in one behaviour
MaxSent == 12
\* at most MaxAsked status queries in one behaviour
MaxAsked == 1
\* the cleanup interval fires MaxSweeps times at most, and the requests are
\* followed up to the time it fires last
MaxSweeps == 1
\* an origin is followed until globalRateLimit has denied it MaxGlobalDenied requests
MaxGlobalDenied == 1
\* the requests (GET /health, which touches no session) address ip1 has made in the
\* running 15 min window when the behaviour starts; address ip2 has made none
WarmHits == 100

\* req.ip of the requests
IPs == {"ip1", "ip2"}
\* the (X-Session-Id, req.ip) pairs requests come with: two sessions behind one
\* address, and one session seen from two addresses
Origins == {<<"s1", "ip2">>, <<"s2", "ip2">>, <<"s2", "ip1">>}

\* const windowMs = 60 * 1000
windowMs == 60 * 1000
\* const maxRequests = 10
maxRequests == 10

\* Math.ceil(a / b) for a >= 0, b > 0
Ceil(a, b) == (a + b - 1) \div b

\* requests.filter(timestamp => now - timestamp < windowMs)
FilterWindowInclusive(requests, t, w) == SelectSeq(requests, LAMBDA timestamp : t - timestamp <= w)
FilterWindow(requests, t, w) == SelectSeq(requests, LAMBDA timestamp : t - timestamp < w)

\* sessionThrottling.has(sessionId)
Has(map, key) == key \in DOMAIN map

\* sessionThrottling.set(sessionId, data)
MapSet(map, key, data) == [k \in DOMAIN map \cup {key} |-> IF k = key THEN data ELSE map[k]]

\* the key under which a request is counted: req.headers['x-session-id'] || req.ip
SessionKeyShared(sessionId) == "ip"
SessionKey(sessionId) == sessionId

\* if (sessionData.requests.length >= maxRequests)
LimitExceededOffByOne(requests) == Len(requests) > maxRequests
LimitExceeded(requests) == Len(requests) >= maxRequests

\* globalRateLimit: max: 100 requests per windowMs: 15 * 60 * 1000 for each IP
globalMax == 100
\* the period of the cleanup interval and the age it sweeps at: 5 * 60 * 1000
sweepIntervalMs == 5 * 60 * 1000

\* retryAfter: Math.ceil(windowMs / 1000)
RetryAfter(requests, t) == Ceil(windowMs, 1000)

\* the stored timestamps of a session that are inside the window at time t
CountInWindowAll(sessionId, t) ==
    IF Has(sessionThrottling, sessionId)
    THEN Len(sessionThrottling[sessionId].requests)
    ELSE 0
CountInWindow(sessionId, t) ==
    IF Has(sessionThrottling, sessionId)
    THEN Len(FilterWindow(sessionThrottling[sessionId].requests, t, windowMs))
    ELSE 0

SentTotal == sent["s1"].total + sent["s2"].total

NoResp == [kind |-> "none", sessionId |-> "none", status |-> 0, retryAfter |-> 0,
           requestsInWindow |-> 0, maxRequests |-> 0]

\* the server's clock moves on
Tick ==
    /\ now + TickMs <= MaxTicks * TickMs
    /\ now' = now + TickMs
    /\ UNCHANGED <<sessionThrottling, lastResp, sent>>

\* sessionRateLimit without sessionData.requests.push(now)
SessionRateLimitNoRecord(sessionId) ==
    LET key == SessionKey(sessionId)
        created == IF Has(sessionThrottling, key)
                   THEN sessionThrottling
                   ELSE MapSet(sessionThrottling, key, [requests |-> <<>>, lastReset |-> now])
        pruned == FilterWindow(created[key].requests, now, windowMs)
    IN /\ SentTotal < MaxSent
       /\ sent' = [sent EXCEPT ![sessionId] = IF sent[sessionId].count = 0
                                             THEN [count |-> 1, rejected |-> 0, since |-> now,
                                                   total |-> @.total + 1]
                                             ELSE [@ EXCEPT !.count = @ + 1, !.total = @ + 1]]
       /\ sessionThrottling' = MapSet(created, key, [created[key] EXCEPT !.requests = pruned])
       /\ lastResp' = [kind |-> "validate", sessionId |-> sessionId,
                       status |-> IF LimitExceeded(pruned) THEN 429 ELSE 200,
                       retryAfter |-> 0, requestsInWindow |-> 0, maxRequests |-> 0]
       /\ UNCHANGED now

\* POST /api/validate reaching sessionRateLimit(req, res, next): one synchronous
\* run of the middleware on Node's single thread
SessionRateLimitRecordRejected(sessionId) ==
    LET key == SessionKey(sessionId)
        created == IF Has(sessionThrottling, key)
                   THEN sessionThrottling
                   ELSE MapSet(sessionThrottling, key, [requests |-> <<>>, lastReset |-> now])
        pruned == FilterWindow(created[key].requests, now, windowMs)
    IN /\ SentTotal < MaxSent
       /\ sent' = [sent EXCEPT ![sessionId] =
                    IF pruned = <<>>
                    THEN [count |-> 1, rejected |-> 0, since |-> now, total |-> @.total + 1]
                    ELSE [@ EXCEPT !.count = @ + 1, !.total = @ + 1,
                                   !.rejected = IF LimitExceeded(pruned) THEN @ + 1 ELSE @]]
       /\ IF LimitExceeded(pruned)
          THEN /\ sessionThrottling' = MapSet(created, key,
                                              [created[key] EXCEPT !.requests = Append(pruned, now)])
               /\ lastResp' = [kind |-> "validate", sessionId |-> sessionId, status |-> 429,
                               retryAfter |-> RetryAfter(pruned, now),
                               requestsInWindow |-> 0, maxRequests |-> maxRequests]
          ELSE /\ sessionThrottling' = MapSet(created, key,
                                              [created[key] EXCEPT !.requests = Append(pruned, now)])
               /\ lastResp' = [kind |-> "validate", sessionId |-> sessionId, status |-> 200,
                               retryAfter |-> 0, requestsInWindow |-> 0, maxRequests |-> 0]
       /\ UNCHANGED now
SessionRateLimit(sessionId) ==
    LET key == SessionKey(sessionId)
        created == IF Has(sessionThrottling, key)
                   THEN sessionThrottling
                   ELSE MapSet(sessionThrottling, key, [requests |-> <<>>, lastReset |-> now])
        pruned == FilterWindow(created[key].requests, now, windowMs)
    IN /\ SentTotal < MaxSent
       /\ sent' = [sent EXCEPT ![sessionId] =
                    IF pruned = <<>>
                    THEN [count |-> 1, rejected |-> 0, since |-> now, total |-> @.total + 1]
                    ELSE [@ EXCEPT !.count = @ + 1, !.total = @ + 1,
                                   !.rejected = IF LimitExceeded(pruned) THEN @ + 1 ELSE @]]
       /\ IF LimitExceeded(pruned)
          THEN /\ sessionThrottling' = MapSet(created, key, [created[key] EXCEPT !.requests = pruned])
               /\ lastResp' = [kind |-> "validate", sessionId |-> sessionId, status |-> 429,
                               retryAfter |-> RetryAfter(pruned, now),
                               requestsInWindow |-> 0, maxRequests |-> maxRequests]
          ELSE /\ sessionThrottling' = MapSet(created, key,
                                              [created[key] EXCEPT !.requests = Append(pruned, now)])
               /\ lastResp' = [kind |-> "validate", sessionId |-> sessionId, status |-> 200,
                               retryAfter |-> 0, requestsInWindow |-> 0, maxRequests |-> 0]
       /\ UNCHANGED now

\* GET /api/session/:sessionId/status
SessionStatusQuery(sessionId) ==
    /\ lastResp' = [kind |-> "status", sessionId |-> sessionId, status |-> 200, retryAfter |-> 0,
                    requestsInWindow |-> CountInWindow(sessionId, now), maxRequests |-> 10]
    /\ UNCHANGED <<sessionThrottling, now, sent>>

InitServer ==
    /\ sessionThrottling = <<>>
    /\ now = 0
    /\ lastResp = NoResp
    /\ sent = [s \in Sessions |-> [count |-> 0, rejected |-> 0, since |-> 0, total |-> 0]]
    /\ globalHits = [ip \in IPs |-> IF ip = "ip1" THEN WarmHits ELSE 0]
    /\ lastSweep = 0
    /\ asked = 0

\* data.requests.some(timestamp => timestamp > fiveMinutesAgo)
hasRecentRequestsHalfMinute(data, t) ==
    \E i \in 1..Len(data.requests) : data.requests[i] > t - TickMs
hasRecentRequestsEvery(data, t) ==
    \A i \in 1..Len(data.requests) : data.requests[i] > t - sweepIntervalMs
hasRecentRequests(data, t) ==
    \E i \in 1..Len(data.requests) : data.requests[i] > t - sweepIntervalMs

\* no request arrives after the steps of Tick until the cleanup interval fires next;
\* then the callback of setInterval(..., 5 * 60 * 1000) runs, Date.now() being t
SweepAt(t) ==
    /\ now + TickMs > MaxTicks * TickMs
    /\ now < t
    /\ now' = t
    /\ lastSweep' = t
    /\ sessionThrottling' =
          [id \in {k \in DOMAIN sessionThrottling : hasRecentRequests(sessionThrottling[k], t)}
              |-> sessionThrottling[id]]
    /\ UNCHANGED <<lastResp, sent, globalHits, asked>>

\* a timer fires when its delay has passed, or later
Sweep ==
    /\ lastSweep + sweepIntervalMs <= MaxSweeps * sweepIntervalMs
    /\ \E late \in {0, TickMs} : SweepAt(lastSweep + sweepIntervalMs + late)

\* globalRateLimit denies the request: it is the one after max in the window of its IP.
\* (The window of 15 min does not end within the times the model reaches.)
GlobalDenied(ip) == globalHits[ip] + 1 > globalMax

\* app.use(globalRateLimit): the request is counted for its IP
GlobalHit(ip) ==
    /\ now < MaxSweeps * sweepIntervalMs
    /\ globalHits[ip] < globalMax + MaxGlobalDenied
    /\ globalHits' = [globalHits EXCEPT ![ip] = @ + 1]

\* the answer of globalRateLimit to a request it denies
GlobalReject(sessionId) ==
    /\ lastResp' = [kind |-> "global", sessionId |-> sessionId, status |-> 429,
                    retryAfter |-> 0, requestsInWindow |-> 0, maxRequests |-> 0]
    /\ UNCHANGED <<sessionThrottling, now, sent>>

\* POST /api/validate with X-Session-Id sessionId from ip, up to the route handler:
\* globalRateLimit (app.use, registered first), then sessionRateLimit
PostValidateSessionFirst(sessionId, ip) ==
    /\ GlobalHit(ip)
    /\ SessionRateLimit(sessionId)
    /\ UNCHANGED <<lastSweep, asked>>
PostValidate(sessionId, ip) ==
    /\ GlobalHit(ip)
    /\ IF GlobalDenied(ip) THEN GlobalReject(sessionId) ELSE SessionRateLimit(sessionId)
    /\ UNCHANGED <<lastSweep, asked>>

\* GET /api/session/:sessionId/status from ip: globalRateLimit, then the route handler
GetSessionStatus(sessionId, ip) ==
    /\ asked < MaxAsked
    /\ asked' = asked + 1
    /\ GlobalHit(ip)
    /\ IF GlobalDenied(ip) THEN GlobalReject(sessionId) ELSE SessionStatusQuery(sessionId)
    /\ UNCHANGED lastSweep

NextServer ==
    \/ Tick /\ UNCHANGED <<globalHits, lastSweep, asked>> /\ UNCHANGED <<formVars, interpreterVars>>
    \/ \E o \in Origins : PostValidate(o[1], o[2]) /\ UNCHANGED <<formVars, interpreterVars>>
    \/ \E o \in Origins : GetSessionStatus(o[1], o[2]) /\ UNCHANGED <<formVars, interpreterVars>>
    \/ Sweep /\ UNCHANGED <<formVars, interpreterVars>>

(***************************************************************************)
(* Part II - the survey form                                               *)
(*                                                                         *)
(* React state is read by a handler from the closure of the render in      *)
(* which the handler was invoked: an asynchronous handler goes on, after   *)
(* each await, with the config / answers it captured then, while the       *)
(* functional updates setAnswers(prev => ...) see the current state.       *)
(***************************************************************************)

\* the texts a respondent types into a textarea
Values == {"", " ", "a"}
\* the respondent's actions (edits, blurs, submit clicks) in one behaviour
MaxActions == 6
\* validateAnswer invocations in flight at one time
MaxCalls == 2
\* follow-up questions the LLM asks for before it stops asking
MaxFollowUps == 2
\* the browser clock (Date.now()) takes the values 0..MaxClock
MaxClock == 1

\* String.prototype.trim, on Values
Trim(v) == IF v = " " THEN "" ELSE v

\* a value used as a condition: undefined and '' are falsy
Truthy(v) == v # undefined /\ v # ""

\* left || right
OrElse(left, right) == IF Truthy(left) THEN left ELSE right

\* ids are sequences of tokens: '2' is <<"2">>, '2-followup-7' is <<"2", "-followup-", "7">>
FollowUpMarker == "-followup-"

\* the questions of the configuration the form is mounted with: the two default
\* questions of App and a second text question without the enableLLMValidation
\* flag, as a configuration loaded from the backend (loadConfiguration) can hold
InitialQuestions ==
    << [id |-> <<"1">>, type |-> "single-choice",
        question |-> "Which score do you give to the service?",
        required |-> TRUE, enableLLMValidation |-> undefined],
       [id |-> <<"2">>, type |-> "text", question |-> "Why did you give this score?",
        required |-> TRUE, enableLLMValidation |-> "true"],
       [id |-> <<"3">>, type |-> "text", question |-> "What should we improve?",
        required |-> TRUE, enableLLMValidation |-> undefined] >>

\* what POST /api/validate answers with status 200: { isValid, followUpQuestion }
ValidResponse == [ok |-> TRUE, isValid |-> "true", followUpQuestion |-> undefined]
ProbeResponse == [ok |-> TRUE, isValid |-> "false", followUpQuestion |-> "Please specify a date"]
EmptyProbeResponse == [ok |-> TRUE, isValid |-> "false", followUpQuestion |-> ""]
Responses == {ValidResponse, ProbeResponse, EmptyProbeResponse}
\* ... or the request fails (429, 4xx/5xx, network): !response.ok, validateAnswerAPI throws
Failure == [ok |-> FALSE, isValid |-> undefined, followUpQuestion |-> undefined]

\* requestsInWindow as getSessionStatus() returns it: 0 (no request in the window, or the
\* fallback when the query fails) or 10 (at the limit); the form reads it only in
\* requestsInWindow >= maxRequests
StatusReplies == {0, 10}

\* an Answer none of whose optional fields is set
EmptyAnswer == [value |-> undefined, isValidating |-> undefined, isValid |-> undefined,
                followUpQuestion |-> undefined]

\* prev[questionId], spread into an object literal
Prev(prev, questionId) == IF Has(prev, questionId) THEN prev[questionId] ELSE EmptyAnswer

\* (answers[id]?.value as string) || ''
ValueOf(ans, questionId) == OrElse(Prev(ans, questionId).value, "")

\* questionId.includes('-followup-')
isFollowUpQuestion(questionId) ==
    \E i \in 1..Len(questionId) : questionId[i] = FollowUpMarker

\* id.split('-followup-')[0]
SplitFollowUp(id) ==
    LET at == {i \in 1..Len(id) : id[i] = FollowUpMarker}
    IN IF at = {} THEN id
       ELSE SubSeq(id, 1, (CHOOSE i \in at : \A j \in at : i <= j) - 1)

\* questions.findIndex(q => q.id === questionId), 0-based, -1 when there is none
FindIndex(qs, questionId) ==
    LET at == {i \in 1..Len(qs) : qs[i].id = questionId}
    IN IF at = {} THEN -1 ELSE (CHOOSE i \in at : \A j \in at : i <= j) - 1

\* newQuestions.splice(index, 0, item), index 0-based (a negative index counts from the end)
Splice(qs, index, item) ==
    LET at == IF index < 0 THEN (IF Len(qs) + index < 0 THEN 0 ELSE Len(qs) + index)
              ELSE Min(index, Len(qs))
    IN SubSeq(qs, 1, at) \o <<item>> \o SubSeq(qs, at + 1, Len(qs))

\* parseValidationResponse(response, questionId, question, answer)
parseValidationResponse(response, questionId, question, answer) ==
    [questionId |-> questionId, isValid |-> response.isValid,
     followUpQuestion |-> response.followUpQuestion,
     originalQuestion |-> question, originalAnswer |-> answer, error |-> undefined]

\* createFollowUpQuestion(validationResult), Date.now() being t
createFollowUpQuestionNoSuffix(validationResult, t) ==
    [id |-> validationResult.questionId \o <<FollowUpMarker, "0">>,
     type |-> "text", question |-> validationResult.followUpQuestion,
     required |-> TRUE, enableLLMValidation |-> "false"]
createFollowUpQuestion(validationResult, t) ==
    [id |-> validationResult.questionId \o <<FollowUpMarker, ToString(t)>>,
     type |-> "text", question |-> validationResult.followUpQuestion,
     required |-> TRUE, enableLLMValidation |-> "false"]

\* validateFollowUpAnswer(questionId, answer).isComplete
validateFollowUpAnswer(questionId, answer) ==
    [questionId |-> questionId, isComplete |-> Trim(answer) # ""]

\* a boolean written into the tri-state field isValid
Bool(b) == IF b THEN "true" ELSE "false"

\* isAnyAnswerValidating()
isAnyAnswerValidating == \E id \in DOMAIN answers : answers[id].isValidating = "true"

\* the follow-up questions of a sequence
NumFollowUps(qs) == Cardinality({i \in 1..Len(qs) : isFollowUpQuestion(qs[i].id)})

\* the form is on screen (App renders SurveyResults once a submission completed)
Mounted == hs.stage # "completed"

\* renderQuestion draws a textarea for the question
Rendered(questionId) ==
    \E i \in 1..Len(questions) :
        /\ questions[i].id = questionId
        /\ questions[i].type = "text"
        /\ ~(followUpDisplayMode = "inline" /\ isFollowUpQuestion(questionId))

RenderedIds == {questions[i].id : i \in {j \in 1..Len(questions) : Rendered(questions[j].id)}}

\* no handleSubmit invocation is running
NoSubmit == [stage |-> "none", answers |-> <<>>, questions |-> <<>>,
             questionValidationState |-> <<>>, toValidate |-> <<>>, results |-> <<>>]

\* findScoreAnswer(answers), over the questions of the same render
findScoreAnswer(qs, ans) ==
    LET at == {i \in 1..Len(qs) : qs[i].type = "single-choice"}
    IN IF at = {} THEN undefined
       ELSE Prev(ans, qs[CHOOSE i \in at : \A j \in at : i <= j].id).value

\* the options of the single-choice question
Scores == {"3", "5"}

\* handleChoiceChange(questionId, value), from a radio button of a single-choice question
HandleChoiceChange(questionId, value) ==
    /\ Mounted
    /\ \E i \in 1..Len(questions) :
          questions[i].id = questionId /\ questions[i].type = "single-choice"
    /\ value # Prev(answers, questionId).value
    /\ answers' = MapSet(answers, questionId, [EmptyAnswer EXCEPT !.value = value])
    /\ actions < MaxActions
    /\ actions' = actions + 1
    /\ UNCHANGED <<validationTrigger, followUpDisplayMode, questions, questionValidationState,
                   submissionStatus, sessionStatus, calls, hs, clock, scoreInClosure>>

\* handleTextChange(questionId, value)
HandleTextChange(questionId, value) ==
    /\ Mounted
    /\ Rendered(questionId)
    /\ value # ValueOf(answers, questionId)
    /\ answers' = MapSet(answers, questionId,
            IF isFollowUpQuestion(questionId)
            THEN [value |-> value,
                  isValid |-> Bool(validateFollowUpAnswer(questionId, value).isComplete),
                  isValidating |-> "false", followUpQuestion |-> undefined]
            ELSE [EmptyAnswer EXCEPT !.value = value])
    /\ actions < MaxActions
    /\ actions' = actions + 1
    /\ UNCHANGED <<validationTrigger, followUpDisplayMode, questions, questionValidationState,
                   submissionStatus, sessionStatus, calls, hs, clock, scoreInClosure>>

\* the early returns of validateAnswer(questionId, answer): TRUE when it goes on
validateAnswerProceeds(questionId, answer) ==
    /\ Trim(answer) # ""
    /\ ~isFollowUpQuestion(questionId)
    /\ FindIndex(questions, questionId) # -1
    /\ LET question == questions[FindIndex(questions, questionId) + 1]
       IN ~(question.type = "text" /\ question.enableLLMValidation = "false")
    /\ ~(sessionStatus.requestsInWindow >= sessionStatus.maxRequests)

\* handleTextBlur(questionId, value), value being the textarea's content
HandleTextBlur(questionId) ==
    LET value == ValueOf(answers, questionId)
    IN /\ Mounted
       /\ Rendered(questionId)
       /\ IF isFollowUpQuestion(questionId)
          THEN /\ answers' = MapSet(answers, questionId,
                      [Prev(answers, questionId) EXCEPT
                          !.value = value,
                          !.isValid = Bool(validateFollowUpAnswer(questionId, value).isComplete),
                          !.isValidating = "false"])
               /\ answers' # answers
               /\ UNCHANGED calls
          ELSE \* validateAnswer(questionId, value) up to its first await
               /\ validationTrigger = "blur"
               /\ Trim(value) # ""
               /\ validateAnswerProceeds(questionId, value)
               /\ Len(calls) < MaxCalls
               /\ answers' = MapSet(answers, questionId,
                      [Prev(answers, questionId) EXCEPT !.value = value, !.isValidating = "true"])
               /\ calls' = Append(calls, [questionId |-> questionId, answer |-> value,
                                          questions |-> questions, stage |-> "validate",
                                          scoreAnswer |-> scoreInClosure,
                                          validationResult |-> <<>>])
       /\ actions < MaxActions
       /\ actions' = actions + 1
       /\ UNCHANGED <<validationTrigger, followUpDisplayMode, questions, questionValidationState,
                      submissionStatus, sessionStatus, hs, clock, scoreInClosure>>

RemoveAt(seq, i) == SubSeq(seq, 1, i - 1) \o SubSeq(seq, i + 1, Len(seq))

\* validateAnswer after `await validateAnswerAPI(...)`: the verdict is merged into
\* the answer, or the catch block runs
ValidateAnswerResponse(i, outcome) ==
    /\ Mounted
    /\ i \in 1..Len(calls)
    /\ calls[i].stage = "validate"
    /\ LET call == calls[i]
           questionId == call.questionId
           question == call.questions[FindIndex(call.questions, questionId) + 1]
       IN IF ~outcome.ok
          THEN /\ answers' = MapSet(answers, questionId,
                      [Prev(answers, questionId) EXCEPT !.isValidating = "false", !.isValid = undefined])
               /\ calls' = RemoveAt(calls, i)
          ELSE LET validationResult ==
                       parseValidationResponse(outcome, questionId, question.question, call.answer)
               IN /\ Truthy(outcome.followUpQuestion) => NumFollowUps(call.questions) < MaxFollowUps
                  /\ answers' = MapSet(answers, questionId,
                         [Prev(answers, questionId) EXCEPT
                             !.isValidating = "false",
                             !.isValid = validationResult.isValid,
                             !.followUpQuestion = validationResult.followUpQuestion])
                  /\ calls' = [calls EXCEPT ![i] = [@ EXCEPT !.stage = "status",
                                                             !.validationResult = validationResult]]
    /\ UNCHANGED <<validationTrigger, followUpDisplayMode, questions, questionValidationState,
                   submissionStatus, sessionStatus, hs, clock, scoreInClosure, actions>>

\* validateAnswer after `await getSessionStatus()`: the follow-up is handled with
\* the config the invocation captured
ValidateAnswerFollowUp(i, requestsInWindow) ==
    /\ Mounted
    /\ i \in 1..Len(calls)
    /\ calls[i].stage = "status"
    /\ sessionStatus' = [requestsInWindow |-> requestsInWindow, maxRequests |-> 10]
    /\ LET call == calls[i]
           validationResult == call.validationResult
           questionId == call.questionId
       IN IF validationResult.isValid # "true" /\ Truthy(validationResult.followUpQuestion)
          THEN IF followUpDisplayMode = "separate"
               THEN LET newQuestion == createFollowUpQuestion(validationResult, clock)
                        questionIndex == FindIndex(call.questions, questionId)
                    IN /\ questions' = Splice(call.questions, questionIndex + 1, newQuestion)
                       /\ UNCHANGED questionValidationState
               ELSE /\ questionValidationState' = MapSet(questionValidationState, questionId,
                           [needsMoreDetails |-> TRUE,
                            followUpText |-> OrElse(validationResult.followUpQuestion, ""),
                            isAdequate |-> FALSE])
                    /\ UNCHANGED questions
          ELSE IF validationResult.isValid = "true" /\ followUpDisplayMode = "inline"
               THEN /\ questionValidationState' = MapSet(questionValidationState, questionId,
                           [needsMoreDetails |-> FALSE, followUpText |-> "", isAdequate |-> TRUE])
                    /\ UNCHANGED questions
               ELSE UNCHANGED <<questions, questionValidationState>>
    /\ calls' = RemoveAt(calls, i)
    /\ scoreInClosure' = findScoreAnswer(questions', answers)
    /\ UNCHANGED <<validationTrigger, followUpDisplayMode, answers, submissionStatus, hs, clock,
                   actions>>

\* updateSessionStatus(), on mount and every 30 s
UpdateSessionStatus(requestsInWindow) ==
    /\ Mounted
    /\ sessionStatus' = [requestsInWindow |-> requestsInWindow, maxRequests |-> 10]
    /\ scoreInClosure' = findScoreAnswer(questions, answers)
    /\ <<sessionStatus', scoreInClosure'>> # <<sessionStatus, scoreInClosure>>
    /\ UNCHANGED <<validationTrigger, followUpDisplayMode, questions, answers,
                   questionValidationState, submissionStatus, calls, hs, clock, actions>>

\* the browser's clock moves on; Date.now() is read only where a derived question
\* is made, and time is counted from the millisecond the first one is made in
ClockTick ==
    /\ clock < MaxClock
    /\ NumFollowUps(questions) > 0
    /\ clock' = clock + 1
    /\ UNCHANGED <<validationTrigger, followUpDisplayMode, questions, answers,
                   questionValidationState, submissionStatus, sessionStatus, calls, hs,
                   scoreInClosure, actions>>

\* STEP 1 of handleSubmit: the questions that need batch validation
questionsToValidateAgain(qs, ans) ==
    LET eligible == SelectSeq(qs, LAMBDA q :
                        /\ q.type = "text"
                        /\ ~isFollowUpQuestion(q.id)
                        /\ q.enableLLMValidation # "false")
        items == [i \in 1..Len(eligible) |->
                    [questionId |-> eligible[i].id, question |-> eligible[i].question,
                     answer |-> ValueOf(ans, eligible[i].id)]]
    IN SelectSeq(items, LAMBDA item : Trim(item.answer) # "")
questionsToValidateAnswered(qs, ans) ==
    LET items == [i \in 1..Len(qs) |->
                    [questionId |-> qs[i].id, question |-> qs[i].question,
                     answer |-> ValueOf(ans, qs[i].id)]]
    IN SelectSeq(items, LAMBDA item : Trim(item.answer) # "")
questionsToValidate(qs, ans) ==
    LET eligible == SelectSeq(qs, LAMBDA q :
                        /\ q.type = "text"
                        /\ ~isFollowUpQuestion(q.id)
                        /\ q.enableLLMValidation # "false")
        items == [i \in 1..Len(eligible) |->
                    [questionId |-> eligible[i].id, question |-> eligible[i].question,
                     answer |-> ValueOf(ans, eligible[i].id)]]
    IN SelectSeq(items, LAMBDA item :
            /\ Trim(item.answer) # ""
            /\ Prev(ans, item.questionId).isValid = undefined)

\* the result validateAnswersBatch returns for one item: the parsed response, or the
\* object built in the catch block
batchItemResultSwallowed(item, outcome) ==
    parseValidationResponse(IF outcome.ok THEN outcome ELSE ValidResponse,
                            item.questionId, item.question, item.answer)
batchItemResult(item, outcome) ==
    IF outcome.ok
    THEN parseValidationResponse(outcome, item.questionId, item.question, item.answer)
    ELSE [questionId |-> item.questionId, isValid |-> undefined, followUpQuestion |-> undefined,
          originalQuestion |-> item.question, originalAnswer |-> item.answer,
          error |-> "Unknown error"]

\* batchResults.errors.length > 0
hasErrors(results) == \E i \in 1..Len(results) : results[i].error # undefined

\* detectNewFollowUps(validationResults)
detectNewFollowUps(validationResults) ==
    \E i \in 1..Len(validationResults) :
        /\ validationResults[i].followUpQuestion # undefined
        /\ Trim(validationResults[i].followUpQuestion) # ""

\* getFollowUpQuestions(validationResults), Date.now() being t
getFollowUpQuestions(validationResults, t) ==
    LET withFollowUp == SelectSeq(validationResults, LAMBDA result :
                            result.followUpQuestion # undefined)
    IN [i \in 1..Len(withFollowUp) |-> createFollowUpQuestion(withFollowUp[i], t)]

\* the forEach of injectFollowUpQuestions over newQuestions = [...config.questions]
RECURSIVE injectFollowUpQuestions(_, _)
injectFollowUpQuestions(newQuestions, followUpQuestions) ==
    IF followUpQuestions = <<>> THEN newQuestions
    ELSE LET followUp == Head(followUpQuestions)
             originalQuestionId == SplitFollowUp(followUp.id)
             originalIndex == FindIndex(newQuestions, originalQuestionId)
             followUpExists == \E i \in 1..Len(newQuestions) : newQuestions[i].id = followUp.id
         IN injectFollowUpQuestions(
                IF originalIndex # -1 /\ ~followUpExists
                THEN Splice(newQuestions, originalIndex + 1, followUp)
                ELSE newQuestions,
                Tail(followUpQuestions))

\* the forEach of updateAnswersWithValidationResults over updated = { ...prev }
RECURSIVE updateAnswersWithValidationResults(_, _)
updateAnswersWithValidationResults(updated, results) ==
    IF results = <<>> THEN updated
    ELSE LET result == Head(results)
         IN updateAnswersWithValidationResults(
                MapSet(updated, result.questionId,
                    [Prev(updated, result.questionId) EXCEPT
                        !.value = OrElse(Prev(updated, result.questionId).value,
                                         result.originalAnswer),
                        !.isValidating = "false",
                        !.isValid = result.isValid,
                        !.followUpQuestion = result.followUpQuestion]),
                Tail(results))

\* the inline branch of handleSubmit: newValidationState = { ...questionValidationState }
RECURSIVE markNeedsMoreDetails(_, _)
markNeedsMoreDetails(newValidationState, followUpQuestions) ==
    IF followUpQuestions = <<>> THEN newValidationState
    ELSE LET fq == Head(followUpQuestions)
         IN markNeedsMoreDetails(
                MapSet(newValidationState, SplitFollowUp(fq.id),
                    [needsMoreDetails |-> TRUE, followUpText |-> fq.question,
                     isAdequate |-> FALSE]),
                Tail(followUpQuestions))

\* getFollowUpQuestionsFromConfig(questions)
getFollowUpQuestionsFromConfig(qs) == SelectSeq(qs, LAMBDA q : isFollowUpQuestion(q.id))

\* validateAllFollowUpAnswers(questions, answers)
validateAllFollowUpAnswers(qs, ans) ==
    LET followUpQuestions == getFollowUpQuestionsFromConfig(qs)
    IN [i \in 1..Len(followUpQuestions) |->
            validateFollowUpAnswer(followUpQuestions[i].id,
                                   OrElse(Prev(ans, followUpQuestions[i].id).value, ""))]

\* getFollowUpCompletionStatus(questions, answers)
getFollowUpCompletionStatusNoneIncomplete(qs, ans) ==
    [total |-> Len(getFollowUpQuestionsFromConfig(qs)), incomplete |-> <<>>, allComplete |-> TRUE]
getFollowUpCompletionStatus(qs, ans) ==
    LET followUpQuestions == getFollowUpQuestionsFromConfig(qs)
        validationResults == validateAllFollowUpAnswers(qs, ans)
        incomplete == SelectSeq(followUpQuestions, LAMBDA question :
            LET found == {i \in 1..Len(validationResults) :
                             validationResults[i].questionId = question.id}
            IN \/ found = {}
               \/ ~validationResults[CHOOSE i \in found : \A j \in found : i <= j].isComplete)
    IN [total |-> Len(followUpQuestions), incomplete |-> incomplete,
        allComplete |-> Len(incomplete) = 0]

\* STEP 4 of handleSubmit stops the submission
step4Halts(mode, qs, ans, validationState) ==
    IF mode = "separate"
    THEN LET followUpStatus == getFollowUpCompletionStatus(qs, ans)
         IN followUpStatus.total > 0 /\ ~followUpStatus.allComplete
    ELSE \E id \in DOMAIN validationState :
            validationState[id].needsMoreDetails /\ ~validationState[id].isAdequate

\* handleSubmit from STEP 2's results on, in the closure (ans, qs, validationState) of
\* the render in which the form was submitted; results = <<>> when no batch ran.
\* `finally { setSubmissionStatus('idle') }` runs after every return in the try block.
handleSubmitContinue(ans, qs, validationState, results) ==
    /\ answers' = updateAnswersWithValidationResults(answers, results)
    /\ IF hasErrors(results)
       THEN \* showSubmissionNotification('Validation failed ...'); return
            /\ submissionStatus' = "idle"
            /\ hs' = NoSubmit
            /\ UNCHANGED <<questions, questionValidationState>>
       ELSE IF detectNewFollowUps(results)
       THEN \* STEP 3: submission halted, follow-ups were generated
            LET followUpQuestions == getFollowUpQuestions(results, clock)
            IN /\ IF followUpDisplayMode = "separate"
                  THEN /\ questions' = injectFollowUpQuestions(qs, followUpQuestions)
                       /\ UNCHANGED questionValidationState
                  ELSE /\ questionValidationState' =
                              markNeedsMoreDetails(validationState, followUpQuestions)
                       /\ UNCHANGED questions
               /\ submissionStatus' = "idle"
               /\ hs' = NoSubmit
       ELSE IF validationTrigger = "submit"
               /\ step4Halts(followUpDisplayMode, qs, ans, validationState)
       THEN \* STEP 4: unanswered follow-ups / questions needing details exist
            /\ submissionStatus' = "idle"
            /\ hs' = NoSubmit
            /\ UNCHANGED <<questions, questionValidationState>>
       ELSE \* STEP 5: setSubmissionStatus('submitting'); await submitSurvey(answers, config)
            /\ submissionStatus' = "submitting"
            /\ hs' = [NoSubmit EXCEPT !.stage = "submitting", !.answers = ans, !.questions = qs]
            /\ UNCHANGED <<questions, questionValidationState>>
    /\ scoreInClosure' = IF questions' # questions
                         THEN findScoreAnswer(questions', answers') ELSE scoreInClosure

\* the submit button is not disabled
submitEnabledWhileValidating ==
    ~(submissionStatus = "validating" \/ submissionStatus = "submitting")
submitEnabled ==
    /\ ~(submissionStatus = "validating" \/ submissionStatus = "submitting")
    /\ ~(validationTrigger = "blur" /\ isAnyAnswerValidating)

\* handleSubmit(e), up to its first await
HandleSubmit ==
    /\ Mounted
    /\ submitEnabled
    /\ hs.stage = "none"
    /\ actions < MaxActions
    /\ actions' = actions + 1
    /\ LET toValidate == IF validationTrigger = "submit"
                         THEN questionsToValidate(questions, answers) ELSE <<>>
       IN IF Len(toValidate) > 0
          THEN \* await validateAnswersBatch(questionsToValidate, selectedModel, answers)
               /\ submissionStatus' = "validating"
               /\ hs' = [stage |-> "validating", answers |-> answers, questions |-> questions,
                         questionValidationState |-> questionValidationState,
                         toValidate |-> toValidate, results |-> <<>>]
               /\ UNCHANGED <<questions, answers, questionValidationState, scoreInClosure>>
          ELSE handleSubmitContinue(answers, questions, questionValidationState, <<>>)
    /\ UNCHANGED <<validationTrigger, followUpDisplayMode, sessionStatus, calls, clock>>

\* one request of validateAnswersBatch settles; when it is the last one, Promise.all
\* resolves and handleSubmit goes on in the same turn of the event loop
BatchResponseRace(i, outcome) ==
    /\ Mounted
    /\ hs.stage = "validating"
    /\ i \in 1..Len(hs.toValidate)
    /\ handleSubmitContinue(hs.answers, hs.questions, hs.questionValidationState,
                             <<batchItemResult(hs.toValidate[i], outcome)>>)
    /\ UNCHANGED <<validationTrigger, followUpDisplayMode, sessionStatus, calls, clock, actions>>
BatchResponse(i, outcome) ==
    /\ Mounted
    /\ hs.stage = "validating"
    /\ i \in 1..Len(hs.toValidate)
    /\ i \notin DOMAIN hs.results
    /\ outcome.followUpQuestion # undefined =>
          NumFollowUps(hs.questions)
            + Cardinality({j \in DOMAIN hs.results : hs.results[j].followUpQuestion # undefined})
            < MaxFollowUps
    /\ LET results == MapSet(hs.results, i, batchItemResult(hs.toValidate[i], outcome))
       IN IF DOMAIN results = 1..Len(hs.toValidate)
          THEN handleSubmitContinue(hs.answers, hs.questions, hs.questionValidationState,
                                    results)
          ELSE /\ hs' = [hs EXCEPT !.results = results]
               /\ UNCHANGED <<questions, answers, questionValidationState, submissionStatus,
                              scoreInClosure>>
    /\ UNCHANGED <<validationTrigger, followUpDisplayMode, sessionStatus, calls, clock, actions>>

\* `await submitSurvey(answers, config)` returns or throws
SubmitSurveyResponse(ok) ==
    /\ hs.stage = "submitting"
    /\ submissionStatus' = "idle"
    /\ IF ok
       THEN \* onSubmissionComplete(data): App shows the results and resets config
            /\ hs' = [hs EXCEPT !.stage = "completed"]
            /\ questions' = InitialQuestions
       ELSE /\ hs' = NoSubmit
            /\ UNCHANGED questions
    /\ UNCHANGED <<validationTrigger, followUpDisplayMode, answers, questionValidationState,
                   sessionStatus, calls, clock, scoreInClosure, actions>>

InitForm ==
    /\ validationTrigger \in {"blur", "submit"}
    /\ followUpDisplayMode \in {"separate", "inline"}
    /\ questions = InitialQuestions
    /\ answers = <<>>
    /\ questionValidationState = <<>>
    /\ submissionStatus = "idle"
    /\ sessionStatus = [requestsInWindow |-> 0, maxRequests |-> 10]
    /\ calls = <<>>
    /\ hs = NoSubmit
    /\ clock = 0
    /\ scoreInClosure = undefined
    /\ actions = 0

\* every question id that can come to exist
AllIds ==
    {InitialQuestions[i].id : i \in 1..Len(InitialQuestions)}
    \cup {InitialQuestions[i].id \o <<FollowUpMarker, ToString(t)>> :
            i \in 1..Len(InitialQuestions), t \in 0..MaxClock}

NextForm ==
    \/ \E id \in AllIds, v \in Values : HandleTextChange(id, v) /\ UNCHANGED <<serverVars, interpreterVars>>
    \/ \E id \in AllIds : HandleTextBlur(id) /\ UNCHANGED <<serverVars, interpreterVars>>
    \/ \E i \in 1..MaxCalls, r \in Responses \cup {Failure} :
            ValidateAnswerResponse(i, r) /\ UNCHANGED <<serverVars, interpreterVars>>
    \/ \E i \in 1..MaxCalls, n \in StatusReplies :
            ValidateAnswerFollowUp(i, n) /\ UNCHANGED <<serverVars, interpreterVars>>
    \/ \E n \in StatusReplies : UpdateSessionStatus(n) /\ UNCHANGED <<serverVars, interpreterVars>>
    \/ ClockTick /\ UNCHANGED <<serverVars, interpreterVars>>
    \/ HandleSubmit /\ UNCHANGED <<serverVars, interpreterVars>>
    \/ \E i \in 1..Len(InitialQuestions), r \in Responses \cup {Failure} :
            BatchResponse(i, r) /\ UNCHANGED <<serverVars, interpreterVars>>
    \/ \E ok \in BOOLEAN : SubmitSurveyResponse(ok) /\ UNCHANGED <<serverVars, interpreterVars>>

(***************************************************************************)
(* Part III - the response interpreter of POST /api/validate                *)
(*                                                                         *)
(* A text is a sequence of tokens; a token is a word, a run of whitespace, *)
(* a code fence or a JSON document. What the string operations of the      *)
(* handler see inside a token is given by the tables below; no two tokens  *)
(* put side by side form one of the searched substrings.                   *)
(***************************************************************************)

\* random sequences of at most MaxLen tokens are interpreted
MaxLen == 3

Space == " "
\* three backquotes, and three backquotes followed by json
Fence == "[fence]"
FenceJson == "[fence]json"
JProbe == "{\"action\":\"probe\",\"text\":\"Why?\"}"
JProbeSufficient == "{\"action\":\"probe\",\"text\":\"Is that sufficient\"}"
JProbeEmpty == "{\"action\":\"probe\",\"text\":\"\"}"
JNoProbe == "{\"action\":\"no_probe\",\"text\":\"\"}"
JOther == "{\"action\":\"skip\",\"text\":\"Why?\"}"
JMalformed == "{\"action\":\"probe\",\"text\":\"Why?\""
JMalformedSufficient == "{\"action\":\"no_probe\",\"text\":\"sufficient\""
MarkerProse == "\"action\"/\"text\""

Alphabet ==
    {Space, "NO_PROBE", "no_probe", "sufficient", "insufficient", "Insufficient",
     "please", "elaborate", Fence, FenceJson,
     JProbe, JProbeSufficient, JProbeEmpty, JNoProbe, JOther, JMalformed,
     JMalformedSufficient, MarkerProse}

\* an absent value, and a present one
Undefined == <<>>
Some(v) == <<v>>

\* String.prototype.trim
RECURSIVE TrimStart(_)
TrimStart(text) ==
    IF text # <<>> /\ Head(text) = Space THEN TrimStart(Tail(text)) ELSE text
RECURSIVE TrimEnd(_)
TrimEnd(text) ==
    IF text # <<>> /\ text[Len(text)] = Space
    THEN TrimEnd(SubSeq(text, 1, Len(text) - 1)) ELSE text
TrimText(text) == TrimEnd(TrimStart(text))

\* result.trim().toUpperCase() === 'NO_PROBE'
IsNoProbeCaseSensitive(result) == TrimText(result) = <<"NO_PROBE">>
IsNoProbe(result) ==
    /\ Len(TrimText(result)) = 1
    /\ TrimText(result)[1] \in {"NO_PROBE", "no_probe"}

\* result.includes('"action"') && result.includes('"text"')
HasMarkers(result) ==
    \E i \in 1..Len(result) :
        result[i] \in {JProbe, JProbeSufficient, JProbeEmpty, JNoProbe, JOther,
                       JMalformed, JMalformedSufficient, MarkerProse}

\* result.toLowerCase().includes('sufficient')
IncludesSufficientWord(result) ==
    \E i \in 1..Len(result) : result[i] = "sufficient"
IncludesSufficient(result) ==
    \E i \in 1..Len(result) :
        result[i] \in {"sufficient", "insufficient", "Insufficient",
                       JProbeSufficient, JMalformedSufficient}

\* result.replace(/^insufficient\s*/i, '')
StripInsufficient(result) ==
    IF result # <<>> /\ Head(result) \in {"insufficient", "Insufficient"}
    THEN TrimStart(Tail(result))
    ELSE result

\* jsonMatch = result.match(/[fence]json\s*([\s\S]*?)\s*[fence]/) || [null, result];
\* jsonStr = jsonMatch[1] || result
jsonStrWhole(result) == result
jsonStr(result) ==
    LET opens == {i \in 1..Len(result) : result[i] = FenceJson}
        open == CHOOSE i \in opens : \A k \in opens : i <= k
        closes == {j \in 1..Len(result) : j > open /\ result[j] \in {Fence, FenceJson}}
        close == CHOOSE j \in closes : \A k \in closes : j <= k
    IN IF opens = {} THEN result
       ELSE IF closes = {} THEN result
       ELSE IF TrimText(SubSeq(result, open + 1, close - 1)) = <<>> THEN result
       ELSE TrimText(SubSeq(result, open + 1, close - 1))

\* JSON.parse(text): ok is FALSE where it throws
ParseFailure == [ok |-> FALSE, action |-> "", text |-> <<>>]
JSONParse(text) ==
    LET doc == TrimText(text)
    IN IF Len(doc) # 1 THEN ParseFailure
       ELSE IF doc[1] = JProbe THEN [ok |-> TRUE, action |-> "probe", text |-> <<"Why?">>]
       ELSE IF doc[1] = JProbeSufficient
            THEN [ok |-> TRUE, action |-> "probe", text |-> <<"Is that sufficient">>]
       ELSE IF doc[1] = JProbeEmpty THEN [ok |-> TRUE, action |-> "probe", text |-> <<>>]
       ELSE IF doc[1] = JNoProbe THEN [ok |-> TRUE, action |-> "no_probe", text |-> <<>>]
       ELSE IF doc[1] = JOther THEN [ok |-> TRUE, action |-> "skip", text |-> <<"Why?">>]
       ELSE ParseFailure

Valid == [status |-> 200, isValid |-> TRUE, followUpQuestion |-> Undefined]
Invalid(followUp) == [status |-> 200, isValid |-> FALSE, followUpQuestion |-> Some(followUp)]

\* the else branch: "Fallback to old format check"
Fallback(result) ==
    IF IncludesSufficient(result)
    THEN Valid
    ELSE Invalid(TrimText(StripInsufficient(result)))

\* the catch block: "Fallback to old logic if JSON parsing fails"
CatchFallbackError(result) == [status |-> 500, isValid |-> FALSE, followUpQuestion |-> Undefined]
CatchFallback(result) ==
    IF IsNoProbe(result)
    THEN Valid
    ELSE IF IncludesSufficient(result)
         THEN Valid
         ELSE Invalid(TrimText(StripInsufficient(result)))

\* "Parse LLM response to extract follow-up question", result being the trimmed completion
ParseLLMResponse(result) ==
    IF IsNoProbe(result) THEN Valid
    ELSE IF HasMarkers(result)
    THEN LET parsed == JSONParse(jsonStr(result))
         IN IF ~parsed.ok THEN CatchFallback(result)
            ELSE IF parsed.action = "probe" /\ parsed.text # <<>> THEN Invalid(parsed.text)
            ELSE IF parsed.action = "no_probe" THEN Valid
            ELSE \* let isValid = true; let followUpQuestion = undefined
                 Valid
    ELSE Fallback(result)

NoVerdict == [status |-> 0, isValid |-> FALSE, followUpQuestion |-> Undefined]

\* completions with a fenced json block among other words
FencedCompletions ==
    {pre \o <<FenceJson>> \o ws1 \o <<doc>> \o ws2 \o <<Fence>> \o post :
        pre \in {<<>>, <<"sufficient", Space>>, <<"please">>},
        ws1 \in {<<>>, <<Space>>},
        doc \in {JProbe, JProbeSufficient, JProbeEmpty, JNoProbe, JOther, JMalformed, "please"},
        ws2 \in {<<>>, <<Space>>},
        post \in {<<>>, <<Space, "insufficient">>, <<"elaborate", Space>>}}

\* completions of the default prompt's dialect
ProseCompletions ==
    {<<"insufficient", Space, "please", Space, "elaborate">>,
     <<"Insufficient", Space, Space, "please", Space, "elaborate", Space>>,
     <<"please", Space, "elaborate", Space, "sufficient">>,
     <<Space, "no_probe", Space, Space>>}

Completions ==
    UNION {[1..n -> Alphabet] : n \in 0..MaxLen} \cup FencedCompletions \cup ProseCompletions

\* validateRequiredFields(question, answer): the message, or null
validateRequiredFieldsQuestionOnly(question, answer) ==
    IF ~Truthy(question) THEN "question and answer are required" ELSE "null"
validateRequiredFields(question, answer) ==
    IF ~Truthy(question) \/ ~Truthy(answer) THEN "question and answer are required" ELSE "null"

\* the score as buildUserPrompt writes it into the prompt: score || 'Not provided'
ScoreInPrompt(score) == OrElse(score, "Not provided")

NoErrorResponse == [status |-> 0, error |-> "", message |-> ""]
MissingFields(message) == [status |-> 400, error |-> "Missing required fields", message |-> message]
\* the answers for a provider whose key is not configured: the check in the handler,
\* or the validateAPIKey check ahead of it
KeyNotConfigured(model) ==
    {[status |-> 400, error |-> "API key not configured",
      message |-> IF model = "chatgpt"
                  THEN "OpenAI API key not configured. Please set a valid OPENAI_API_KEY environment variable."
                  ELSE "Google API key not configured. Please set a valid GOOGLE_API_KEY environment variable."],
     [status |-> 500, error |-> "Invalid API Key", message |-> undefined]}
InvalidModel == [status |-> 400, error |-> "Invalid model",
                 message |-> "Model must be either \"chatgpt\" or \"gemini\""]

\* the responses of the handler's catch block, by the status of the error thrown
CaughtError(status) ==
    IF status = 401
    THEN [status |-> 401, error |-> "Invalid API key",
          message |-> "The provided OpenAI API key is invalid"]
    ELSE IF status = 429
    THEN [status |-> 429, error |-> "OpenAI rate limit exceeded",
          message |-> "Too many requests to OpenAI API. Please try again later."]
    ELSE [status |-> 500, error |-> "Internal server error",
          message |-> "Failed to validate answer"]

\* the statuses of the errors a provider's client throws (0: an error without status)
ProviderStatuses == {401, 429, 0}

\* no response has been sent for the request
Unanswered == verdict.status = 0 /\ errorResponse.status = 0

\* the handler of POST /api/validate up to `await <the LLM call>`, for the body b:
\* the error responses it can send and the LLM call it can make
handlerStart(b, keys) ==
    IF validateRequiredFields(b.question, b.answer) # "null"
    THEN {[errorResponse |-> MissingFields(validateRequiredFields(b.question, b.answer)),
           llmCall |-> <<>>]}
    ELSE IF b.model \in {"chatgpt", "gemini"} /\ ~keys
    THEN {[errorResponse |-> e, llmCall |-> <<>>] : e \in KeyNotConfigured(b.model)}
    ELSE IF b.model \notin {"chatgpt", "gemini"}
    THEN {[errorResponse |-> InvalidModel, llmCall |-> <<>>]}
    ELSE {[errorResponse |-> NoErrorResponse,
           llmCall |-> <<[model |-> b.model, score |-> ScoreInPrompt(b.score)]>>]}

\* the handler of POST /api/validate up to `await <the LLM call>`
Request ==
    /\ Unanswered
    /\ llmCall = <<>>
    /\ \E o \in handlerStart(body, keysConfigured) :
            /\ errorResponse' = o.errorResponse
            /\ llmCall' = o.llmCall
    /\ UNCHANGED <<completion, verdict, body, keysConfigured>>

\* the handler from the LLM's answer on: result = <completion>.trim(), the parsing, res.json
Respond ==
    /\ Unanswered
    /\ llmCall # <<>>
    /\ verdict' = ParseLLMResponse(TrimText(completion))
    /\ UNCHANGED <<completion, body, keysConfigured, llmCall, errorResponse>>

\* the LLM call throws instead of returning a completion: the catch block answers
ProviderError(status) ==
    /\ Unanswered
    /\ llmCall # <<>>
    /\ completion = <<>>
    /\ errorResponse' = CaughtError(status)
    /\ UNCHANGED <<completion, verdict, body, keysConfigured, llmCall>>

\* a complete request body for a configured provider
CompleteBody == [question |-> "Why?", answer |-> "a", score |-> "5", model |-> "gemini"]

\* the request bodies a client can send
Bodies ==
    [question : {undefined, "", "Why?"}, answer : {undefined, "", "a"},
     score : {undefined, "5"}, model : {"gemini", "chatgpt", "other"}]

InitInterpreter ==
    /\ completion = <<>>
    /\ verdict = NoVerdict
    /\ body = CompleteBody
    /\ keysConfigured = TRUE
    /\ llmCall = <<>>
    /\ errorResponse = NoErrorResponse

NextInterpreter ==
    \/ Request /\ UNCHANGED <<serverVars, formVars>>
    \/ Respond /\ UNCHANGED <<serverVars, formVars>>
    \/ \E status \in ProviderStatuses : ProviderError(status) /\ UNCHANGED <<serverVars, formVars>>

Init == InitServer /\ InitForm /\ InitInterpreter

\* the server, next to a form that stays as it was mounted
InitMounted == Init /\ validationTrigger = "blur" /\ followUpDisplayMode = "separate"

SpecServer == InitMounted /\ [][NextServer]_vars

SpecForm == Init /\ [][NextForm]_vars

\* the form in blur mode up to its submission, the score question included
NextScore ==
    \/ \E v \in Scores : HandleChoiceChange(<<"1">>, v) /\ UNCHANGED <<serverVars, interpreterVars>>
    \/ \E id \in AllIds, v \in Values : HandleTextChange(id, v) /\ UNCHANGED <<serverVars, interpreterVars>>
    \/ \E id \in AllIds : HandleTextBlur(id) /\ UNCHANGED <<serverVars, interpreterVars>>
    \/ \E i \in 1..MaxCalls, r \in Responses \cup {Failure} :
            ValidateAnswerResponse(i, r) /\ UNCHANGED <<serverVars, interpreterVars>>
    \/ \E i \in 1..MaxCalls, n \in StatusReplies :
            ValidateAnswerFollowUp(i, n) /\ UNCHANGED <<serverVars, interpreterVars>>
    \/ \E n \in StatusReplies : UpdateSessionStatus(n) /\ UNCHANGED <<serverVars, interpreterVars>>
    \/ ClockTick /\ UNCHANGED <<serverVars, interpreterVars>>

SpecScore == InitMounted /\ [][NextScore]_vars

\* the form in blur mode up to its submission
NextBlur ==
    \/ \E id \in AllIds, v \in Values : HandleTextChange(id, v) /\ UNCHANGED <<serverVars, interpreterVars>>
    \/ \E id \in AllIds : HandleTextBlur(id) /\ UNCHANGED <<serverVars, interpreterVars>>
    \/ \E i \in 1..MaxCalls, r \in Responses \cup {Failure} :
            ValidateAnswerResponse(i, r) /\ UNCHANGED <<serverVars, interpreterVars>>
    \/ \E i \in 1..MaxCalls, n \in StatusReplies :
            ValidateAnswerFollowUp(i, n) /\ UNCHANGED <<serverVars, interpreterVars>>
    \/ \E n \in StatusReplies : UpdateSessionStatus(n) /\ UNCHANGED <<serverVars, interpreterVars>>
    \/ ClockTick /\ UNCHANGED <<serverVars, interpreterVars>>

\* what the browser does on its own: the 30 s interval polls the session status,
\* and time passes
PollSessionStatus ==
    \E n \in StatusReplies : UpdateSessionStatus(n) /\ UNCHANGED <<serverVars, interpreterVars>>
TimePasses == ClockTick /\ UNCHANGED <<serverVars, interpreterVars>>

\* the form in blur mode with the steps the browser schedules taken when they are
\* due; when a response to a request arrives is up to the server and the provider
SpecBlurFair ==
    InitMounted /\ [][NextBlur]_vars /\ WF_vars(PollSessionStatus) /\ WF_vars(TimePasses)

\* the interpreter, applied to each completion
InitCompletion ==
    /\ InitServer /\ InitForm
    /\ validationTrigger = "blur" /\ followUpDisplayMode = "separate"
    /\ verdict = NoVerdict
    /\ llmCall = <<>>
    /\ errorResponse = NoErrorResponse
    /\ \/ /\ body = CompleteBody
          /\ keysConfigured = TRUE
          /\ completion \in Completions
       \/ /\ body \in Bodies
          /\ keysConfigured \in BOOLEAN
          /\ completion = <<>>

SpecInterpreter == InitCompletion /\ [][NextInterpreter]_vars

(***************************************************************************)
(* Part IV - a request to POST /api/validate from the gates to its answer  *)
(***************************************************************************)

\* the answer of sessionRateLimit to a request it rejects
TooManyRequests ==
    [status |-> 429, error |-> "Too many requests",
     message |-> "Maximum 10 requests per minute allowed per session"]

\* the answer of globalRateLimit to a request it denies
TooManyFromIP ==
    [status |-> 429, error |-> "Too many requests from this IP",
     message |-> "Please try again later"]

\* a body the handler rejects
BlankAnswerBody == [question |-> "Why?", answer |-> "", score |-> undefined, model |-> "gemini"]

\* the bodies sent through the gates
SentBodies == {CompleteBody, BlankAnswerBody}

\* where the requests sent through the gates come from
SentOrigins == {<<"s1", "ip2">>, <<"s2", "ip1">>}

\* no request is waiting for the provider
NoneAwaiting == llmCall = <<>> \/ ~Unanswered

\* POST /api/validate with body b: globalRateLimit, sessionRateLimit and, when both
\* call next(), the handler up to its first await, in one turn of the event loop.
\* Requests are taken one at a time.
PostValidateBodyCheckedFirst(sessionId, ip, b) ==
    /\ NoneAwaiting
    /\ body' = b
    /\ verdict' = NoVerdict
    /\ IF validateRequiredFields(b.question, b.answer) # "null"
       THEN /\ GlobalHit(ip)
            /\ SentTotal < MaxSent
            /\ sent' = [sent EXCEPT ![sessionId].total = @ + 1]
            /\ lastResp' = [kind |-> "validate", sessionId |-> sessionId, status |-> 200,
                            retryAfter |-> 0, requestsInWindow |-> 0, maxRequests |-> 0]
            /\ errorResponse' = MissingFields(validateRequiredFields(b.question, b.answer))
            /\ llmCall' = <<>>
            /\ UNCHANGED <<sessionThrottling, now, lastSweep, asked>>
       ELSE /\ PostValidate(sessionId, ip)
            /\ IF lastResp'.kind = "global"
               THEN errorResponse' = TooManyFromIP /\ llmCall' = <<>>
               ELSE IF lastResp'.status = 429
               THEN errorResponse' = TooManyRequests /\ llmCall' = <<>>
               ELSE \E o \in handlerStart(b, keysConfigured) :
                        /\ errorResponse' = o.errorResponse
                        /\ llmCall' = o.llmCall
    /\ UNCHANGED <<completion, keysConfigured>>
PostValidateBody(sessionId, ip, b) ==
    /\ NoneAwaiting
    /\ PostValidate(sessionId, ip)
    /\ body' = b
    /\ verdict' = NoVerdict
    /\ IF lastResp'.kind = "global"
       THEN errorResponse' = TooManyFromIP /\ llmCall' = <<>>
       ELSE IF lastResp'.status = 429
       THEN errorResponse' = TooManyRequests /\ llmCall' = <<>>
       ELSE \E o \in handlerStart(b, keysConfigured) :
                /\ errorResponse' = o.errorResponse
                /\ llmCall' = o.llmCall
    /\ UNCHANGED <<completion, keysConfigured>>

\* the server has been up for four minutes: a session asked once when it started
\* and no request has come since
QuietTicks == 8
QuietMs == QuietTicks * TickMs
InitQuiet ==
    /\ InitForm /\ InitInterpreter
    /\ validationTrigger = "blur" /\ followUpDisplayMode = "separate"
    /\ now = QuietMs
    /\ sessionThrottling = [id \in {"s2"} |-> [requests |-> <<0>>, lastReset |-> 0]]
    /\ lastResp = [kind |-> "validate", sessionId |-> "s2", status |-> 200,
                   retryAfter |-> 0, requestsInWindow |-> 0, maxRequests |-> 0]
    /\ sent = [s \in Sessions |-> IF s = "s2"
                                  THEN [count |-> 1, rejected |-> 0, since |-> 0, total |-> 1]
                                  ELSE [count |-> 0, rejected |-> 0, since |-> 0, total |-> 0]]
    /\ globalHits = [ip \in IPs |-> IF ip = "ip1" THEN WarmHits ELSE 1]
    /\ lastSweep = 0
    /\ asked = 0

\* the server's clock moves on, up to the time the cleanup interval fires first
LateTick ==
    /\ now + TickMs <= sweepIntervalMs
    /\ now' = now + TickMs
    /\ UNCHANGED <<sessionThrottling, lastResp, sent>>

\* where the requests around the first cleanup come from
LateOrigins == {<<"s1", "ip2">>, <<"s2", "ip2">>}

NextSweep ==
    \/ LateTick /\ UNCHANGED <<globalHits, lastSweep, asked>> /\ UNCHANGED <<formVars, interpreterVars>>
    \/ \E o \in LateOrigins : PostValidate(o[1], o[2]) /\ UNCHANGED <<formVars, interpreterVars>>
    \/ Sweep /\ UNCHANGED <<formVars, interpreterVars>>

SpecSweep == InitQuiet /\ [][NextSweep]_vars

NextPipeline ==
    \/ Tick /\ UNCHANGED <<globalHits, lastSweep, asked>> /\ UNCHANGED <<formVars, interpreterVars>>
    \/ \E o \in SentOrigins, b \in SentBodies :
            PostValidateBody(o[1], o[2], b) /\ UNCHANGED formVars
    \/ Respond /\ UNCHANGED <<serverVars, formVars>>
    \/ \E status \in ProviderStatuses : ProviderError(status) /\ UNCHANGED <<serverVars, formVars>>

SpecPipeline == InitMounted /\ [][NextPipeline]_vars

(***************************************************************************)
(* Part I - claims                                                         *)
(***************************************************************************)

\* the timestamps of a stored list that are less than 60 s old at time t
InWindow(requests, t) == {i \in 1..Len(requests) : t - requests[i] < 60000}

StoredRequests(sessionId) ==
    IF sessionId \in DOMAIN sessionThrottling THEN sessionThrottling[sessionId].requests ELSE <<>>

\* the registry entry of a session id (<<>> when there is none)
Entry(sessionId) ==
    IF sessionId \in DOMAIN sessionThrottling THEN <<sessionThrottling[sessionId]>> ELSE <<>>

\* how many stored timestamps of the session are less than 60 s old now
InWindowCount(sessionId) == Cardinality(InWindow(StoredRequests(sessionId), now))

\* C1: under any interleaving of the requests of the sessions, a session never
\* has more than 10 admitted timestamps inside the trailing 60 s window; a
\* request is admitted only when fewer than 10 timestamps of its session were
\* inside the window, and with 10 inside it is rejected and records nothing
\* (check and record are one step).
C1_AtMostTenInWindow ==
    /\ [](\A s \in Sessions : InWindowCount(s) <= 10)
    /\ [][\A s \in Sessions : SessionRateLimit(s) =>
            /\ (lastResp'.status = 200 =>
                    InWindowCount(s) < 10 /\ InWindowCount(s)' = InWindowCount(s) + 1)
            /\ (InWindowCount(s) >= 10 =>
                    lastResp'.status = 429 /\ InWindowCount(s)' = InWindowCount(s))]_vars

C1_Witness ==
    /\ lastResp.kind = "validate"
    /\ lastResp.status = 429
    /\ InWindowCount(lastResp.sessionId) = 10
    /\ sent[lastResp.sessionId].count = 12

\* the burst of a session (the requests it sent since one that found no
\* timestamp in its window) is still inside one 60 s window
InBurst(sessionId) ==
    /\ sent[sessionId].count > 0
    /\ now - sent[sessionId].since < 60000

\* C2: of the k requests a session sends within one window, starting from no
\* recorded request, exactly the first min(k, 10) are admitted, the count in
\* the window is min(k, 10), the others get 429, and a status query then
\* reports requestsInWindow = min(k, 10) with maxRequests = 10.
C2_FirstTenAdmitted ==
    \A s \in Sessions : InBurst(s) =>
        /\ Len(StoredRequests(s)) = Min(sent[s].count, 10)
        /\ (lastResp.kind = "validate" /\ lastResp.sessionId = s) =>
              /\ lastResp.status = (IF sent[s].count <= 10 THEN 200 ELSE 429)
        /\ (lastResp.kind = "status" /\ lastResp.sessionId = s) =>
              /\ lastResp.requestsInWindow = Min(sent[s].count, 10)
              /\ lastResp.maxRequests = 10

C2_Witness ==
    /\ lastResp.kind = "status"
    /\ InBurst(lastResp.sessionId)
    /\ sent[lastResp.sessionId].count = 12
    /\ lastResp.requestsInWindow = 10

\* C3: a rejection by the per-session gate carries a positive retry-after equal
\* to the whole seconds until the oldest timestamp in the window expires
\* (oldest + 60 s - now).
C3_RetryAfterUntilOldestExpires ==
    [][\A s \in Sessions : (SessionRateLimit(s) /\ lastResp'.status = 429) =>
          /\ lastResp'.retryAfter > 0
          /\ lastResp'.retryAfter =
                Ceil(Head(StoredRequests(s)') + 60000 - now', 1000)]_vars

\* C10: a request or a status query of one session changes neither the entry
\* nor the in-window count of another session, and the gate rejects a request
\* exactly when 10 timestamps of its own session are in the window.
C10_SessionsIndependent ==
    [][\A r \in Sessions :
          /\ (SessionRateLimit(r) \/ SessionStatusQuery(r)) =>
                \A s \in Sessions \ {r} :
                    /\ Entry(s)' = Entry(s)
                    /\ InWindowCount(s)'
                         = InWindowCount(s)
          /\ SessionRateLimit(r) =>
                (lastResp'.status = 429
                    <=> InWindowCount(r) >= 10)]_vars

C10_Witness ==
    /\ lastResp.kind = "validate"
    /\ lastResp.sessionId = "s2"
    /\ lastResp.status = 200
    /\ InWindowCount("s1") = 10
    /\ sent["s1"].count > 10

\* sessionRateLimit would reject a request of the session at the present time
WouldReject(sessionId) == InWindowCount(sessionId) >= 10

\* C11: a status query leaves the registry as it is (no entry created for an
\* unknown id, for which it reports 0; no timestamp pruned or appended) and with
\* it the next admit/reject decision of every session; the count it reports is
\* the number of stored timestamps of the session less than 60 s old.
C11_StatusQueryReadOnly ==
    [][\A o \in Origins : GetSessionStatus(o[1], o[2]) =>
          /\ sessionThrottling' = sessionThrottling
          /\ \A s \in Sessions : WouldReject(s)' = WouldReject(s)
          /\ lastResp'.kind = "status" =>
                /\ lastResp'.requestsInWindow = InWindowCount(o[1])
                /\ ~Has(sessionThrottling, o[1]) =>
                      lastResp'.requestsInWindow = 0 /\ ~Has(sessionThrottling', o[1])]_vars

C11_Witness ==
    /\ lastResp.kind = "status"
    /\ Has(sessionThrottling, lastResp.sessionId)
    /\ lastResp.requestsInWindow > 0
    /\ Len(StoredRequests(lastResp.sessionId)) > lastResp.requestsInWindow

\* the newest of the timestamps of a non-empty list
Newest(requests) ==
    CHOOSE t \in {requests[i] : i \in 1..Len(requests)} :
        \A i \in 1..Len(requests) : requests[i] <= t

C13_RollingWindow ==
    [][\A s \in Sessions : SessionRateLimit(s) =>
          LET inWindow == SelectSeq(StoredRequests(s), LAMBDA t : now - t < 60000)
          IN /\ lastResp'.status = 429 <=> Len(inWindow) >= 10
             /\ lastResp'.status = 200 <=> Len(inWindow) < 10
             /\ StoredRequests(s)' = IF Len(inWindow) >= 10
                                     THEN inWindow ELSE Append(inWindow, now)]_vars

C13_Witness ==
    /\ lastResp.kind = "validate"
    /\ lastResp.status = 200
    /\ sent[lastResp.sessionId].rejected > 0
    /\ sent[lastResp.sessionId].count > 10
    /\ now = sent[lastResp.sessionId].since + 60000

\* C14: the global gate counts every request for its address, whatever its
\* session id, and is evaluated before the per-session gate: the request after
\* the 100th of an address is answered 429 by the global gate and leaves the
\* registry as it is; any other request goes on to sessionRateLimit.
C14_GlobalGateFirst ==
    [][\A o \in Origins : PostValidate(o[1], o[2]) =>
          /\ globalHits' = [globalHits EXCEPT ![o[2]] = @ + 1]
          /\ globalHits[o[2]] >= 100 =>
                /\ lastResp'.kind = "global"
                /\ lastResp'.status = 429
                /\ sessionThrottling' = sessionThrottling
          /\ globalHits[o[2]] < 100 =>
                /\ lastResp'.kind = "validate"
                /\ SessionRateLimit(o[1])]_vars

C14_Witness ==
    /\ lastResp.kind = "global"
    /\ lastResp.sessionId = "s2"
    /\ asked = 0
    /\ ~Has(sessionThrottling, "s2")
    /\ Has(sessionThrottling, "s1")

(***************************************************************************)
(* Part III - claims                                                       *)
(***************************************************************************)

\* the completion as the handler parses it
Result == TrimText(completion)

\* C15: a completion without structured markers that begins with the token
\* "insufficient" followed by text is invalid, and its follow-up is the text
\* that remains after the leading token.
C15_LeadingInsufficientIsInvalid ==
    (/\ verdict.status = 200
     /\ Len(Result) >= 3
     /\ Result[1] = "insufficient"
     /\ Result[2] = Space
     /\ ~HasMarkers(Result))
        => /\ verdict.isValid = FALSE
           /\ verdict.followUpQuestion = Some(TrimText(Tail(Result)))

\* text is doc alone, or holds doc in its first fenced json block
CarriesPayload(text, doc) ==
    \/ text = <<doc>>
    \/ \E i \in 1..Len(text) : \E j \in (i + 1)..Len(text) :
          /\ text[i] = FenceJson
          /\ \A k \in 1..(i - 1) : text[k] # FenceJson
          /\ text[j] = Fence
          /\ \A k \in (i + 1)..(j - 1) : text[k] \notin {Fence, FenceJson}
          /\ TrimText(SubSeq(text, i + 1, j - 1)) = <<doc>>

C17_SentinelIsValid ==
    (/\ verdict.status # 0
     /\ \E i \in 1..Len(completion) :
           /\ completion[i] \in {"NO_PROBE", "no_probe"}
           /\ \A k \in 1..Len(completion) : k # i => completion[k] = Space)
        => /\ verdict.status = 200
           /\ verdict.isValid = TRUE
           /\ verdict.followUpQuestion = Undefined

C17_Witness ==
    /\ verdict.status = 200
    /\ completion = <<Space, "no_probe", Space, Space>>
    /\ verdict.isValid = TRUE

\* C18: a completion that is neither the sentinel nor marked as structured is
\* valid exactly when its lower-cased text contains "sufficient"; otherwise it
\* is invalid and the follow-up is the text without a leading "insufficient".
C18_FreeTextHeuristic ==
    (/\ verdict.status = 200
     /\ ~IsNoProbe(Result)
     /\ ~HasMarkers(Result))
        => /\ verdict.isValid <=>
                \E i \in 1..Len(Result) :
                    Result[i] \in {"sufficient", "insufficient", "Insufficient"}
           /\ ~verdict.isValid =>
                verdict.followUpQuestion =
                    Some(IF Result # <<>> /\ Result[1] \in {"insufficient", "Insufficient"}
                         THEN TrimText(Tail(Result)) ELSE Result)

C18_Witness ==
    /\ verdict.status = 200
    /\ completion = <<"please", Space, "elaborate">>
    /\ verdict.isValid = FALSE
    /\ verdict.followUpQuestion = Some(<<"please", Space, "elaborate">>)

\* C19: a completion with the structured markers whose payload does not parse
\* still gets a verdict, the one of the free-text heuristic for the same text.
C19_MalformedPayloadFallsBack ==
    (/\ verdict.status # 0
     /\ HasMarkers(Result)
     /\ ~JSONParse(jsonStr(Result)).ok)
        => /\ verdict.status = 200
           /\ verdict = Fallback(Result)

C19_Witness ==
    /\ verdict.status = 200
    /\ completion = <<"please", Space, JMalformed>>
    /\ verdict.isValid = FALSE
    /\ verdict.followUpQuestion = Some(<<"please", Space, JMalformed>>)

(***************************************************************************)
(* Part II - claims                                                        *)
(***************************************************************************)

\* this step is handleSubmit reaching `await submitSurvey(answers, config)`
SubmitSurveyCalled == hs.stage # "submitting" /\ hs'.stage = "submitting"

\* this step settles the last request of a batch: handleSubmit merges the results
BatchSettles == hs.stage = "validating" /\ hs'.stage # "validating"

\* the results the batch has once request i settles with outcome r
SettledResults(i, r) == MapSet(hs.results, i, batchItemResult(hs.toValidate[i], r))

\* the step leaves the answer to questionId as the respondent's edit left it
StaysUnvalidated(questionId) ==
    /\ Prev(answers', questionId).value = Prev(answers, questionId).value
    /\ Prev(answers', questionId).isValid = undefined
    /\ Prev(answers', questionId).followUpQuestion = undefined

\* C4: when the value of an answer is no longer the one sent for validation, the
\* step that applies the verdict (validateAnswer in immediate mode,
\* updateAnswersWithValidationResults in batch mode) keeps the newer value,
\* leaves isValid undefined and attaches no follow-up text.
C4_StaleVerdictDiscarded ==
    [][/\ \A i \in 1..MaxCalls : \A r \in Responses \cup {Failure} :
            (/\ i <= Len(calls)
             /\ ValueOf(answers, calls[i].questionId) # calls[i].answer
             /\ ValidateAnswerResponse(i, r))
                => StaysUnvalidated(calls[i].questionId)
       /\ BatchSettles =>
            \A k \in 1..Len(hs.toValidate) :
                ValueOf(answers, hs.toValidate[k].questionId) # hs.toValidate[k].answer
                    => StaysUnvalidated(hs.toValidate[k].questionId)]_vars

\* every derived question of the sequence qs has a non-blank answer in ans
AllDerivedAnswered(qs, ans) ==
    \A i \in 1..Len(qs) :
        isFollowUpQuestion(qs[i].id) => Trim(ValueOf(ans, qs[i].id)) # ""

\* C5: in either trigger mode, submitSurvey is never called while the question
\* sequence holds a derived question whose answer is missing or blank.
C5_NoSubmitWithBlankDerived ==
    [][SubmitSurveyCalled => AllDerivedAnswered(questions', answers')]_vars

\* C6: in batch mode a submit attempt whose batch has an invalid verdict with a
\* non-empty follow-up ends without calling submitSurvey, and in separate
\* display mode no submit attempt calls submitSurvey while a derived question of
\* the sequence has no non-empty answer.
C6_HaltedUntilDerivedAnswered ==
    [][/\ \A i \in 1..Len(InitialQuestions) : \A r \in Responses \cup {Failure} :
            (/\ BatchSettles
             /\ BatchResponse(i, r)
             /\ \E k \in DOMAIN SettledResults(i, r) :
                    /\ SettledResults(i, r)[k].isValid = "false"
                    /\ Truthy(SettledResults(i, r)[k].followUpQuestion))
                => ~SubmitSurveyCalled
       /\ (/\ validationTrigger = "submit"
           /\ followUpDisplayMode = "separate"
           /\ SubmitSurveyCalled)
                => AllDerivedAnswered(questions', answers')]_vars

\* C7: the question sequence never holds two derived questions for the same
\* verdict (the same parent question and the same follow-up text).
C7_InjectionIdempotent ==
    \A i \in 1..Len(questions) : \A j \in 1..Len(questions) :
        (/\ i < j
         /\ isFollowUpQuestion(questions[i].id)
         /\ isFollowUpQuestion(questions[j].id)
         /\ SplitFollowUp(questions[i].id) = SplitFollowUp(questions[j].id))
            => questions[i].question # questions[j].question

\* the elements of sub occur in seq in the same relative order
RECURSIVE IsSubsequence(_, _)
IsSubsequence(sub, seq) ==
    IF sub = <<>> THEN TRUE
    ELSE IF seq = <<>> THEN FALSE
    ELSE IF Head(sub) = Head(seq) THEN IsSubsequence(Tail(sub), Tail(seq))
    ELSE IsSubsequence(sub, Tail(seq))

\* C8: a step that changes the question sequence of the mounted form keeps all
\* the questions it held, in the same relative order, and every question it
\* adds is a derived question placed directly after its own parent.
C8_InsertedAfterParent ==
    [][(questions' # questions /\ Mounted') =>
          /\ IsSubsequence(questions, questions')
          /\ \A j \in 1..Len(questions') :
                (\A i \in 1..Len(questions) : questions[i] # questions'[j]) =>
                    /\ isFollowUpQuestion(questions'[j].id)
                    /\ j > 1
                    /\ questions'[j - 1].id = SplitFollowUp(questions'[j].id)]_vars

\* the answer to q is one batch mode has still to validate: q is eligible, its
\* answer is not blank and has no verdict (unvalidated or errored)
AwaitsVerdict(q, ans) ==
    /\ q.type = "text"
    /\ ~isFollowUpQuestion(q.id)
    /\ q.enableLLMValidation # "false"
    /\ Trim(ValueOf(ans, q.id)) # ""
    /\ Prev(ans, q.id).isValid = undefined

\* C9: in batch mode a failed validation call leaves its answer errored (isValid
\* undefined, not validating) and is reported as an error of that question, and
\* submitSurvey is never called in batch mode while the answer of an eligible
\* question is errored or unvalidated.
C9_NoSubmitWhileErroredOrUnvalidated ==
    [][/\ \A i \in 1..Len(InitialQuestions) : \A r \in Responses \cup {Failure} :
            (BatchSettles /\ BatchResponse(i, r)) =>
                \A k \in DOMAIN SettledResults(i, r) :
                    SettledResults(i, r)[k].error # undefined =>
                        /\ Prev(answers', hs.toValidate[k].questionId).isValid = undefined
                        /\ Prev(answers', hs.toValidate[k].questionId).isValidating = "false"
                        /\ ~SubmitSurveyCalled
       /\ (validationTrigger = "submit" /\ SubmitSurveyCalled) =>
            \A i \in 1..Len(questions') : ~AwaitsVerdict(questions'[i], answers')]_vars

\* the validation status of an answer record
StatusOf(answer) ==
    IF answer.isValidating = "true" THEN "validating"
    ELSE IF answer.isValid = "true" THEN "valid"
    ELSE IF answer.isValid = "false" THEN "invalid"
    ELSE IF answer.isValidating = "false" THEN "errored"
    ELSE "unvalidated"

\* C20: the status of each answer moves only along unvalidated -> validating ->
\* {valid, invalid, errored}: a status of valid, invalid or errored is entered
\* only from validating, and a step that changes the value of an answer with
\* such a status leaves the answer unvalidated (isValid undefined, not
\* validating, no follow-up text).
C20_StatusStateMachine ==
    [][\A questionId \in DOMAIN answers' :
          LET before == Prev(answers, questionId)
              after == Prev(answers', questionId)
          IN /\ (/\ StatusOf(after) \in {"valid", "invalid", "errored"}
                 /\ StatusOf(after) # StatusOf(before))
                    => StatusOf(before) = "validating"
             /\ (/\ StatusOf(before) \in {"valid", "invalid", "errored"}
                 /\ after.value # before.value)
                    => /\ after.isValid = undefined
                       /\ after.isValidating # "true"
                       /\ after.followUpQuestion = undefined]_vars

\* the question a request was issued for, in the sequence the issuing handler saw
IssuedFor(qs, questionId) == qs[FindIndex(qs, questionId) + 1]

\* the requests to /api/validate that are in flight: those of validateAnswer and
\* those of the running batch
Issued ==
    {IssuedFor(calls[i].questions, calls[i].questionId) :
        i \in {j \in 1..Len(calls) : calls[j].stage = "validate"}}
    \cup (IF hs.stage = "validating"
          THEN {IssuedFor(hs.questions, hs.toValidate[k].questionId) :
                    k \in 1..Len(hs.toValidate)}
          ELSE {})

\* C21: a validation request is issued for a question only if the question is of
\* text kind, its enableLLMValidation flag is not false and its id carries no
\* -followup- marker; no request is ever issued for a derived question.
C21_OnlyEligibleValidated ==
    \A q \in Issued :
        /\ q.type = "text"
        /\ q.enableLLMValidation # "false"
        /\ \A i \in 1..Len(q.id) : q.id[i] # FollowUpMarker

C21_Witness ==
    /\ validationTrigger = "submit"
    /\ hs.stage = "validating"
    /\ Issued # {}
    /\ \E i \in 1..Len(questions) :
          /\ isFollowUpQuestion(questions[i].id)
          /\ Trim(ValueOf(answers, questions[i].id)) # ""

\* C22: the submit attempt goes on only when every request of the batch has
\* settled; the batch result then holds one entry per question sent, in the
\* order sent, and every verdict is stored on its answer even when another
\* request of the batch failed.
C22_BatchJoins ==
    [][BatchSettles =>
          \E i \in 1..Len(hs.toValidate) : \E r \in Responses \cup {Failure} :
              /\ BatchResponse(i, r)
              /\ DOMAIN hs.results = (1..Len(hs.toValidate)) \ {i}
              /\ \A k \in 1..Len(hs.toValidate) :
                    LET result == SettledResults(i, r)[k]
                        after == Prev(answers', hs.toValidate[k].questionId)
                    IN /\ result.questionId = hs.toValidate[k].questionId
                       /\ after.isValid = result.isValid
                       /\ after.followUpQuestion = result.followUpQuestion
                       /\ after.isValidating = "false"]_vars

C22_Witness ==
    /\ validationTrigger = "submit"
    /\ hs.stage = "none"
    /\ Prev(answers, <<"2">>).isValid = "false"
    /\ Prev(answers, <<"2">>).followUpQuestion = ProbeResponse.followUpQuestion
    /\ Prev(answers, <<"3">>).isValid = undefined
    /\ Prev(answers, <<"3">>).isValidating = "false"

\* the requests to /api/validate that have not been answered yet
Pending ==
    Cardinality({j \in 1..Len(calls) : calls[j].stage = "validate"})
    + (IF hs.stage = "validating"
       THEN Len(hs.toValidate) - Cardinality(DOMAIN hs.results) ELSE 0)

\* the answer is errored: no verdict, not validating
Errored(answer) == answer.isValid = undefined /\ answer.isValidating = "false"

HasDerived(qs, questionId) ==
    \E j \in 1..Len(qs) :
        isFollowUpQuestion(qs[j].id) /\ SplitFollowUp(qs[j].id) = questionId

\* C27: in batch mode with separate display submitSurvey is never called while
\* an answer is invalid with a follow-up text and the sequence holds no derived
\* question of that answer's question.
C27_FollowUpInjectedBeforeSubmit ==
    [][(/\ validationTrigger = "submit"
        /\ followUpDisplayMode = "separate"
        /\ SubmitSurveyCalled)
          => \A questionId \in DOMAIN answers' :
                (/\ answers'[questionId].isValid = "false"
                 /\ Truthy(answers'[questionId].followUpQuestion))
                    => HasDerived(questions', questionId)]_vars

\* C28: in blur mode with separate display the injection of one verdict drops no
\* derived question of another question: after validateAnswer has handled the
\* follow-up of one question, every derived question of another parent that was
\* in the sequence is still there, directly after its parent.
C28_ConcurrentInjectionsKept ==
    [][(/\ validationTrigger = "blur"
        /\ followUpDisplayMode = "separate"
        /\ Len(calls') < Len(calls))
          => \A i \in 1..Len(calls) : \A n \in StatusReplies :
                ValidateAnswerFollowUp(i, n) =>
                   \A j \in 1..Len(questions) :
                      (/\ isFollowUpQuestion(questions[j].id)
                       /\ SplitFollowUp(questions[j].id) # calls[i].questionId)
                          => \E k \in 2..Len(questions') :
                                /\ questions'[k] = questions[j]
                                /\ questions'[k - 1].id = SplitFollowUp(questions[j].id)]_vars

\* the ids of a sequence of questions
Ids(qs) == {qs[j].id : j \in 1..Len(qs)}

\* C29: a derived question never receives the id of another derived question of
\* the same parent, also when both are made in the same millisecond: the id that
\* validateAnswer gives the derived question of a verdict is not the id of a
\* question that was added to the sequence while the request was in flight.
C29_DerivedIdsUnique ==
    [][(/\ followUpDisplayMode = "separate"
        /\ Len(calls') < Len(calls))
          => \A i \in 1..Len(calls) : \A n \in StatusReplies :
                (/\ ValidateAnswerFollowUp(i, n)
                 /\ calls[i].validationResult.isValid # "true"
                 /\ Truthy(calls[i].validationResult.followUpQuestion))
                    => createFollowUpQuestion(calls[i].validationResult, clock).id
                          \notin Ids(questions) \ Ids(calls[i].questions)]_vars

\* questionId is flagged as needing more details, which STEP 4 halts on
Flagged(validationState, questionId) ==
    /\ Has(validationState, questionId)
    /\ validationState[questionId].needsMoreDetails
    /\ ~validationState[questionId].isAdequate

\* C30: in batch mode with inline display, when a batch settles with every
\* verdict valid and every question flagged as needing more details is among
\* the questions this batch validated, the submit attempt calls submitSurvey.
C30_FlagClearedByValidVerdict ==
    [][(/\ validationTrigger = "submit"
        /\ followUpDisplayMode = "inline"
        /\ BatchSettles)
          => \A i \in 1..Len(hs.toValidate) : \A r \in Responses \cup {Failure} :
                (/\ BatchResponse(i, r)
                 /\ \A k \in DOMAIN SettledResults(i, r) :
                       SettledResults(i, r)[k].isValid = "true"
                 /\ \A questionId \in DOMAIN questionValidationState :
                       Flagged(questionValidationState, questionId)
                          => \E k \in 1..Len(hs.toValidate) :
                                hs.toValidate[k].questionId = questionId)
                    => SubmitSurveyCalled]_vars

\* C26: the score sent with a validation request is the answer the single-choice
\* question has at the moment the request is sent (nothing when it has none).
C26_ScoreIsCurrent ==
    [][Len(calls') > Len(calls) =>
          calls'[Len(calls')].scoreAnswer = findScoreAnswer(questions, answers)]_vars

\* C25: a request whose question or answer is missing or empty is answered with
\* status 400, error 'Missing required fields' and message 'question and answer
\* are required', and no LLM call is made for it.
C25_MissingFieldsRejected ==
    (/\ body.question \in {undefined, ""} \/ body.answer \in {undefined, ""}
     /\ ~(Unanswered /\ llmCall = <<>>))
        => /\ errorResponse = [status |-> 400, error |-> "Missing required fields",
                               message |-> "question and answer are required"]
           /\ llmCall = <<>>
           /\ verdict = NoVerdict

C25_Witness ==
    /\ body.question = "Why?"
    /\ body.answer = ""
    /\ keysConfigured
    /\ errorResponse.status = 400
    /\ llmCall = <<>>

\* C24: every answer that enters validating eventually leaves that state (valid,
\* invalid or errored), even when the provider never responds.
C24_ValidatingEnds ==
    \A id \in AllIds :
        (Prev(answers, id).isValidating = "true") ~> (Prev(answers, id).isValidating # "true")

C32_VerdictConsistent ==
    verdict.status = 200 =>
        (~verdict.isValid <=>
            /\ verdict.followUpQuestion # Undefined
            /\ verdict.followUpQuestion # Some(<<>>))

\* the step is a request that sessionRateLimit rejects
GateRejects(sessionId) ==
    /\ sent' # sent
    /\ lastResp'.kind = "validate"
    /\ lastResp'.status = 429
    /\ lastResp'.sessionId = sessionId

\* C33: a request rejected by the per-session gate adds no timestamp and makes no
\* LLM call: the stored timestamps are afterwards those that were inside the window
\* before, so the in-window count is unchanged and admission is not postponed.
C33_RejectionLeavesWindow ==
    [][\A sessionId \in Sessions :
          GateRejects(sessionId) =>
              /\ StoredRequests(sessionId)' = FilterWindow(StoredRequests(sessionId), now, windowMs)
              /\ InWindowCount(sessionId)' = InWindowCount(sessionId)
              /\ llmCall' = <<>>
              /\ verdict' = NoVerdict
              /\ errorResponse' = TooManyRequests]_vars

C33_Witness ==
    /\ lastResp.kind = "validate"
    /\ lastResp.status = 429
    /\ lastResp.sessionId = "s1"
    /\ sent["s1"].rejected = 2
    /\ InWindowCount("s1") = 10
    /\ errorResponse = TooManyRequests
    /\ llmCall = <<>>

\* the step is a request of the session that globalRateLimit lets through
ReachesGate(sessionId) ==
    /\ globalHits' # globalHits
    /\ lastResp'.kind = "validate"
    /\ lastResp'.sessionId = sessionId

\* the step is the end of a request the handler was waiting for the provider on
ProviderAnswers == llmCall # <<>> /\ Unanswered /\ ~Unanswered'

\* C36: every request that passes the per-session gate takes one slot of the
\* session's window, also when the handler answers it 400 for missing fields or
\* the provider fails afterwards; with 10 slots taken the next request of the
\* session is rejected with 429.
C36_EveryAdmittedRequestCounts ==
    [][/\ \A sessionId \in Sessions :
            ReachesGate(sessionId) =>
                IF InWindowCount(sessionId) >= 10
                THEN lastResp'.status = 429 /\ errorResponse' = TooManyRequests
                ELSE /\ InWindowCount(sessionId)' = InWindowCount(sessionId) + 1
                     /\ errorResponse'.status = 400 \/ llmCall' # <<>>
       /\ ProviderAnswers => sessionThrottling' = sessionThrottling]_vars

C36_Witness ==
    /\ body = BlankAnswerBody
    /\ errorResponse = MissingFields("question and answer are required")
    /\ lastResp.sessionId = "s1"
    /\ sent["s1"].total = 10
    /\ InWindowCount("s1") = 10

\* the step is a run of the cleanup
Sweeps == lastSweep' # lastSweep

\* C37: a sweep changes no admit/reject decision: the in-window count of every
\* session is the same just before and just after it, and a session with a
\* timestamp inside the 60 s window is not removed.
C37_SweepKeepsWindow ==
    [][Sweeps =>
          \A sessionId \in Sessions :
              /\ Cardinality(InWindow(StoredRequests(sessionId)', now'))
                    = Cardinality(InWindow(StoredRequests(sessionId), now'))
              /\ InWindow(StoredRequests(sessionId), now') # {}
                    => Has(sessionThrottling', sessionId)]_vars

C37_Witness ==
    /\ lastSweep = now
    /\ lastSweep > 0
    /\ ~Has(sessionThrottling, "s2")
    /\ Has(sessionThrottling, "s1")
    /\ InWindowCount("s1") = 10

\* the questions of the sequence that are eligible, answered and unvalidated
AwaitingBatch ==
    {i \in 1..Len(questions) :
        /\ questions[i].type = "text"
        /\ questions[i].enableLLMValidation # "false"
        /\ \A k \in 1..Len(questions[i].id) : questions[i].id[k] # FollowUpMarker
        /\ Has(answers, questions[i].id)
        /\ answers[questions[i].id].value \notin {undefined, "", " "}
        /\ answers[questions[i].id].isValid = undefined}

\* C34: a submit attempt in batch mode sends exactly the eligible questions whose
\* answer is non-empty after trimming and holds no verdict, each once and with its
\* current answer; when there is none, no request is issued.
C34_BatchSendsUnvalidated ==
    [][(validationTrigger = "submit" /\ actions' # actions /\ answers' = answers /\ HandleSubmit) =>
          IF AwaitingBatch = {}
          THEN hs'.stage # "validating"
          ELSE /\ hs'.stage = "validating"
               /\ Len(hs'.toValidate) = Cardinality(AwaitingBatch)
               /\ \A i \in AwaitingBatch :
                     \E k \in 1..Len(hs'.toValidate) :
                        /\ hs'.toValidate[k].questionId = questions[i].id
                        /\ hs'.toValidate[k].answer = answers[questions[i].id].value]_vars

C34_Witness ==
    /\ validationTrigger = "submit"
    /\ hs.stage = "validating"
    /\ Len(hs.toValidate) = 1
    /\ hs.toValidate[1].questionId = <<"3">>
    /\ Prev(answers, <<"2">>).value = "a"
    /\ Prev(answers, <<"2">>).isValid # undefined

\* the step ends a submit attempt by halting it: a batch settles with new follow-ups
\* (STEP 3), or an attempt with nothing to validate stops at STEP 4
SubmitHalts ==
    /\ validationTrigger = "submit"
    /\ hs'.stage = "none"
    /\ \/ /\ BatchSettles
          /\ questions' # questions \/ questionValidationState' # questionValidationState
       \/ /\ hs.stage = "none"
          /\ actions' # actions
          /\ HandleSubmit

\* C35: when a submit attempt is halted, submissionStatus is 'halted' once
\* handleSubmit has finished.
C35_HaltedStatusShown ==
    [][SubmitHalts => submissionStatus' = "halted"]_vars

\* C38: after a batch is halted with new follow-ups, every derived question of the
\* sequence has a non-empty prompt text, is of text kind, is required and has LLM
\* validation disabled.
C38_DerivedQuestionsHavePrompt ==
    [][(BatchSettles /\ questions' # questions) =>
          \A i \in 1..Len(questions') :
              isFollowUpQuestion(questions'[i].id) =>
                  /\ questions'[i].question \notin {undefined, "", " "}
                  /\ questions'[i].type = "text"
                  /\ questions'[i].required
                  /\ questions'[i].enableLLMValidation = "false"]_vars

====
